---- MODULE Spec2Model ----
(***************************************************************************)
(* The account API of sigma-mono (src/api/account.api.go): six gin         *)
(* handlers, each a pipeline  access check -> input binding -> service     *)
(* call(s) -> audit Record -> response.  Each request is served by one     *)
(* worker (goroutine); workers share only the service layer's store.       *)
(***************************************************************************)
EXTENDS Integers, Sequences, FiniteSets, TLC

VARIABLES req, store

vars == <<req, store>>

\* ------------------------------------------------------------- bounds
MaxID == 2      \* row identifiers are 1..MaxID
MaxVal == 2     \* values of the one modelled payload field (Name)

Workers == {"w1", "w2"}
IDs == 1..MaxID
Names == 1..MaxVal

\* ------------------------------------------------- program constants
StatusOK == 200
StatusForbidden == 403
StatusNotFound == 404
StatusNotAcceptable == 406
StatusInternalServerError == 500

thisAccount == "account"
thisAccounts == "accounts"

AccountRead == "AccountRead"
AccountWrite == "AccountWrite"
AccountExcel == "AccountExcel"

\* ---------------------------------------------------- model.Account
Account(id, n) == [ID |-> id, Name |-> n]
\* `var account model.Account`: the Go zero value
ZeroAccount == Account(0, 0)
\* the untyped nil handed to Record as a snapshot
Nil == Account(-1, -1)

\* ------------------------------------------------- request inputs
\* c.Param("accountID"): a string, here a sequence of characters
Digit == [i \in 0..9 |-> CASE i = 0 -> "0" [] i = 1 -> "1" [] i = 2 -> "2"
                            [] i = 3 -> "3" [] i = 4 -> "4" [] i = 5 -> "5"
                            [] i = 6 -> "6" [] i = 7 -> "7" [] i = 8 -> "8"
                            [] OTHER -> "9"]
PathParams == {<<Digit[i]>> : i \in IDs} \cup {<<>>, <<"x">>}

\* request bodies: malformed JSON, or an object that always carries Name and
\* may carry an "id" member
Bodies == {[ok |-> FALSE, hasID |-> FALSE, ID |-> 0, Name |-> 0]}
          \cup {[ok |-> TRUE, hasID |-> FALSE, ID |-> 0, Name |-> n] : n \in Names}
          \cup {[ok |-> TRUE, hasID |-> TRUE, ID |-> i, Name |-> n] : i \in IDs, n \in Names}
NoBody == [ok |-> FALSE, hasID |-> FALSE, ID |-> 0, Name |-> 0]

\* the raw `limit` query parameter; values below 1 are invalid
RawLimits == (-1)..MaxID

\* ------------------------------------------------- types.StrToRowID
DigitVal(ch) == IF \E i \in 0..9 : Digit[i] = ch
                THEN CHOOSE i \in 0..9 : Digit[i] = ch
                ELSE -1

RECURSIVE ParseDigits(_, _)
ParseDigits(s, acc) ==
    IF s = <<>> THEN acc
    ELSE IF acc < 0 \/ DigitVal(Head(s)) < 0 THEN -1
    ELSE ParseDigits(Tail(s), acc * 10 + DigitVal(Head(s)))

StrToRowID(s) ==
    LET v == IF s = <<>> THEN -1 ELSE ParseDigits(s, 0)
    IN  IF v < 0 THEN [err |-> TRUE, id |-> 0] ELSE [err |-> FALSE, id |-> v]

\* ------------------------------------------------- gin ShouldBindJSON
\* Decoding overlays the members present in the body on the struct it is
\* handed; members the body omits keep the struct's current value.
ShouldBindJSON(account, body) ==
    IF ~body.ok THEN [err |-> TRUE, account |-> account]
    ELSE [err |-> FALSE,
          account |-> Account(IF body.hasID THEN body.ID ELSE account.ID, body.Name)]

\* ------------------------------------------------- param.Get
DefaultLimit == MaxID
ParamGet(raw, resource) ==
    [resource |-> resource, Limit |-> IF raw < 1 THEN DefaultLimit ELSE raw]

\* ------------------------------------------------- service layer
Present(s) == {i \in IDs : s[i] # 0}
MinOf(S) == CHOOSE m \in S : \A x \in S : m <= x

RECURSIVE Rows(_, _)
Rows(s, ids) ==
    IF ids = {} THEN <<>>
    ELSE LET m == MinOf(ids) IN <<Account(m, s[m])>> \o Rows(s, ids \ {m})

Page(s, params) ==
    LET all == Rows(s, Present(s))
    IN  SubSeq(all, 1, IF params.Limit < Len(all) THEN params.Limit ELSE Len(all))

Failure(s) == [err |-> TRUE, ent |-> ZeroAccount, rows |-> <<>>, store |-> s]

\* every operation may also fail for reasons of its own (the data source)
ServiceFindByID(s, id) ==
    {Failure(s)} \cup
    (IF id \in Present(s)
     THEN {[err |-> FALSE, ent |-> Account(id, s[id]), rows |-> <<>>, store |-> s]}
     ELSE {})

ServiceList(s, params) ==
    {Failure(s), [err |-> FALSE, ent |-> ZeroAccount, rows |-> Page(s, params), store |-> s]}

ServiceExcel(s, params) ==
    {Failure(s), [err |-> FALSE, ent |-> ZeroAccount, rows |-> Page(s, params), store |-> s]}

\* the identifier of a created row is assigned by the service
ServiceCreate(s, account, params) ==
    {Failure(s)} \cup
    {[err |-> FALSE, ent |-> Account(i, account.Name), rows |-> <<>>,
      store |-> [s EXCEPT ![i] = account.Name]] : i \in IDs \ Present(s)}

\* full-entity upsert keyed by the identifier the entity carries
ServiceSave(s, account) ==
    {Failure(s)} \cup
    (IF account.ID \in IDs
     THEN {[err |-> FALSE, ent |-> account, rows |-> <<>>,
            store |-> [s EXCEPT ![account.ID] = account.Name]]}
     ELSE {})

ServiceDelete(s, id) ==
    {Failure(s)} \cup
    (IF id \in Present(s)
     THEN {[err |-> FALSE, ent |-> Account(id, s[id]), rows |-> <<>>,
            store |-> [s EXCEPT ![id] = 0]]}
     ELSE {})

\* ------------------------------------------------- response package
NoData == [kind |-> "none", ent |-> ZeroAccount, rows |-> <<>>]
Entity(a) == [kind |-> "entity", ent |-> a, rows |-> <<>>]
List(rows) == [kind |-> "list", ent |-> ZeroAccount, rows |-> rows]
NoMessage == <<>>
NoFile == <<>>

\* response.New: nothing set yet; status 0 is "no status set by the handler"
RespNew == [shape |-> "envelope", status |-> 0, err |-> "", msg |-> NoMessage,
            data |-> NoData, file |-> NoFile]
Status(b, code) == [b EXCEPT !.status = code]
Error(b, e) == [b EXCEPT !.err = e]
MessageT(b, t, arg) == [b EXCEPT !.msg = <<t, arg>>]
WithData(b, d) == [b EXCEPT !.data = d]

\* the class of the status a response goes out with: the one the handler set,
\* else the envelope's default, a client error when it carries an error
StatusClass(resp) ==
    CASE resp.status \in 200..299 -> "2xx"
      [] resp.status \in 400..499 -> "4xx"
      [] resp.status \in 500..599 -> "5xx"
      [] resp.status = 0 /\ resp.err # "" -> "4xx"
      [] OTHER -> "2xx"

\* c.AbortWithStatusJSON / c.JSON: a body written past the envelope builder
Raw(code, e, m) == [shape |-> "raw", status |-> code, err |-> e, msg |-> m,
                    data |-> NoData, file |-> NoFile]
\* c.Data with the attachment headers
Attachment(code, name, bytes) ==
    [shape |-> "attachment", status |-> code, err |-> "", msg |-> NoMessage,
     data |-> NoData, file |-> <<name, bytes>>]

\* ------------------------------------------------- utils/excel builder
EmptySheet == [layout |-> <<>>, margins |-> <<>>, headerFooter |-> FALSE,
               cols |-> {}, header |-> <<>>, fields |-> <<>>, rows |-> <<>>,
               data |-> FALSE, table |-> FALSE]
NoBook == [name |-> "", sheets |-> <<>>, active |-> "", sheet |-> <<>>]

SheetNames(ex) == {ex.sheets[i] : i \in 1..Len(ex.sheets)}
ExcelNew(name) == [NoBook EXCEPT !.name = name]
AddSheet(ex, n) ==
    IF n \in SheetNames(ex) THEN ex
    ELSE [ex EXCEPT !.sheets = Append(@, n), !.sheet = Append(@, EmptySheet)]
SheetIndex(ex, n) == CHOOSE i \in 1..Len(ex.sheets) : ex.sheets[i] = n
Active(ex, n) == IF n \in SheetNames(ex) THEN [ex EXCEPT !.active = n] ELSE ex
\* every call below targets the active sheet and is dropped when there is none
OnActive(ex, field, value) ==
    IF ex.active = "" THEN ex
    ELSE [ex EXCEPT !.sheet[SheetIndex(ex, ex.active)][field] = value]
ActiveSheet(ex) == ex.sheet[SheetIndex(ex, ex.active)]
SetPageLayout(ex, orientation, paper) == OnActive(ex, "layout", <<orientation, paper>>)
SetPageMargins(ex, m) == OnActive(ex, "margins", <<m>>)
SetHeaderFooter(ex) == OnActive(ex, "headerFooter", TRUE)
SetColWidth(ex, from, to, width) ==
    IF ex.active = "" THEN ex
    ELSE OnActive(ex, "cols", ActiveSheet(ex).cols \cup {<<from, to, width>>})
WriteHeader(ex, labels) == OnActive(ex, "header", labels)
SetSheetFields(ex, fields) == OnActive(ex, "fields", fields)
\* a field the entity does not carry renders as an empty cell
Cell(a, f) == IF f \in DOMAIN a THEN a[f] ELSE ""
WriteData(ex, accounts) ==
    IF ex.active = "" THEN ex
    ELSE LET fs == ActiveSheet(ex).fields
         IN  OnActive(OnActive(ex, "data", TRUE), "rows",
                      [i \in 1..Len(accounts) |->
                          [j \in 1..Len(fs) |-> Cell(accounts[i], fs[j])]])
AddTable(ex) == OnActive(ex, "table", TRUE)

BookValid(ex) ==
    /\ ex.active # ""
    /\ \A i \in 1..Len(ex.sheet) :
          ex.sheet[i].data => Len(ex.sheet[i].header) = Len(ex.sheet[i].fields)
\* Generate: the workbook's own checks, then a serialisation that may fail
Generate(ex) ==
    {[err |-> TRUE, bytes |-> <<>>, name |-> <<>>]} \cup
    (IF BookValid(ex)
     THEN {[err |-> FALSE, bytes |-> ex.sheet, name |-> <<ex.name, ".xlsx">>]}
     ELSE {})

\* ------------------------------------------------- one request's state
Fresh == [pc |-> "idle", verb |-> "none",
          path |-> <<>>, body |-> NoBody, query |-> 0,
          accountID |-> 0, account |-> ZeroAccount, accountBefore |-> ZeroAccount,
          accountUpdated |-> ZeroAccount, createdAccount |-> ZeroAccount,
          data |-> <<>>, ex |-> NoBook, built |-> <<>>, generated |-> "",
          calls |-> <<>>, checked |-> <<>>, svc |-> <<>>, audit |-> <<>>,
          out |-> <<>>]

Call(r, op) == [r EXCEPT !.calls = Append(@, op)]
Goto(r, next) == [r EXCEPT !.pc = next]
Return(r) == [r EXCEPT !.pc = "done"]
\* resp.CheckAccess(resource): true when the caller lacks the capability
CheckAccess(r, cap, denied) ==
    [Call(r, "CheckAccess") EXCEPT !.checked = Append(@, [cap |-> cap, denied |-> denied])]
\* a service call: its name, the identifier and entity it is handed, and
\* the error and entity it returns
Invoke(r, op, id, ent, res) ==
    [Call(r, op) EXCEPT !.svc = Append(@, [op |-> op, id |-> id, ent |-> ent,
                                           err |-> res.err, ret |-> res.ent])]
\* p.Engine.Record(c, kind, data...): the recorder's own failure is not
\* returned to the handler
Record(r, kind, data, ok) ==
    [Call(r, "Record") EXCEPT !.audit = Append(@, [kind |-> kind, data |-> data, ok |-> ok])]
\* the terminal write of a response body
JSON(r, resp) == [Call(r, "Write") EXCEPT !.out = Append(@, resp)]

Set(w, r) == req' = [req EXCEPT ![w] = r]
At(w, v, p) == req[w].verb = v /\ req[w].pc = p

\* ------------------------------------------------- the access gate
\* The block every handler opens with: response.New, then CheckAccess, and
\* on denial a 403 envelope and return.
Forbidden == Error(Status(RespNew, StatusForbidden), "You_dont_have_permission")

\* the gate with its `return` left out: the handler runs on after the 403
AccessGate_NoReturn(w, v, cap, next) ==
    /\ req[w].pc = "idle"
    /\ \E denied \in BOOLEAN :
          LET r == CheckAccess([Fresh EXCEPT !.verb = v], cap, denied)
          IN  Set(w, Goto(IF denied THEN JSON(r, Forbidden) ELSE r, next))
    /\ UNCHANGED store

AccessGate(w, v, cap, next) ==
    /\ req[w].pc = "idle"
    /\ \E denied \in BOOLEAN :
          LET r == CheckAccess([Fresh EXCEPT !.verb = v], cap, denied)
          IN  Set(w, IF denied THEN Return(JSON(r, Forbidden)) ELSE Goto(r, next))
    /\ UNCHANGED store

\* ------------------------------------------------- FindByID
FindByID_CheckAccess(w) == AccessGate(w, "FindByID", AccountRead, "StrToRowID")

FindByID_StrToRowID(w) ==
    /\ At(w, "FindByID", "StrToRowID")
    /\ \E s \in PathParams :
          LET p == StrToRowID(s)
              r == [Call(req[w], "StrToRowID") EXCEPT !.path = s, !.accountID = p.id]
          IN  Set(w, IF p.err
                     THEN Return(JSON(r, Error(RespNew, "Invalid_ID")))
                     ELSE Goto(r, "Service"))
    /\ UNCHANGED store

FindByID_Service(w) ==
    /\ At(w, "FindByID", "Service")
    /\ \E res \in ServiceFindByID(store, req[w].accountID) :
          LET r == [Invoke(req[w], "FindByID", req[w].accountID, ZeroAccount, res)
                       EXCEPT !.account = res.ent]
          IN  /\ Set(w, IF res.err
                        THEN Return(JSON(r, MessageT(Error(Status(RespNew, StatusNotFound),
                                                           "service error"),
                                                     "Record_Not_Found", "")))
                        ELSE Goto(r, "Record"))
              /\ store' = res.store

FindByID_Record(w) ==
    /\ At(w, "FindByID", "Record")
    /\ \E ok \in BOOLEAN :
          Set(w, Goto(Record(req[w], "AccountView", <<>>, ok), "JSON"))
    /\ UNCHANGED store

\* JSON called without the entity
FindByID_JSON_NoPayload(w) ==
    /\ At(w, "FindByID", "JSON")
    /\ Set(w, Return(JSON(req[w], MessageT(Status(RespNew, StatusOK), "V_info", thisAccount))))
    /\ UNCHANGED store

FindByID_JSON(w) ==
    /\ At(w, "FindByID", "JSON")
    /\ Set(w, Return(JSON(req[w], WithData(MessageT(Status(RespNew, StatusOK),
                                                     "V_info", thisAccount),
                                           Entity(req[w].account)))))
    /\ UNCHANGED store

\* ------------------------------------------------- List
\* List gated on the weaker read capability
List_CheckAccess_Read(w) == AccessGate(w, "List", AccountRead, "Service")

List_CheckAccess(w) == AccessGate(w, "List", AccountWrite, "Service")

\* param.Get returns the descriptor alone: there is no error to branch on
List_Service(w) ==
    /\ At(w, "List", "Service")
    /\ \E raw \in RawLimits :
          LET params == ParamGet(raw, thisAccounts)
              r0 == [Call(req[w], "param.Get") EXCEPT !.query = raw]
          IN  \E res \in ServiceList(store, params) :
                 LET r == [Invoke(r0, "List", 0, ZeroAccount, res)
                              EXCEPT !.data = res.rows]
                 IN  /\ Set(w, IF res.err
                               THEN Return(JSON(r, Error(RespNew, "service error")))
                               ELSE Goto(r, "Record"))
                     /\ store' = res.store

List_Record(w) ==
    /\ At(w, "List", "Record")
    /\ \E ok \in BOOLEAN :
          Set(w, Goto(Record(req[w], "AccountList", <<>>, ok), "JSON"))
    /\ UNCHANGED store

List_JSON(w) ==
    /\ At(w, "List", "JSON")
    /\ Set(w, Return(JSON(req[w], WithData(MessageT(Status(RespNew, StatusOK),
                                                     "List_of_V", thisAccounts),
                                           List(req[w].data)))))
    /\ UNCHANGED store

\* ------------------------------------------------- Create
Create_CheckAccess(w) == AccessGate(w, "Create", AccountWrite, "ShouldBindJSON")

Create_ShouldBindJSON(w) ==
    /\ At(w, "Create", "ShouldBindJSON")
    /\ \E b \in Bodies :
          LET d == ShouldBindJSON(req[w].account, b)
              r == [Call(req[w], "ShouldBindJSON") EXCEPT !.body = b, !.account = d.account]
          IN  Set(w, IF d.err
                     THEN Return(JSON(r, Raw(StatusNotAcceptable, "validation error",
                                             NoMessage)))
                     ELSE Goto(r, "Service"))
    /\ UNCHANGED store

\* the error of Service.Create is not looked at
Create_Service_IgnoreErr(w) ==
    /\ At(w, "Create", "Service")
    /\ \E raw \in RawLimits :
          LET params == ParamGet(raw, thisAccounts)
              r0 == [Call(req[w], "param.Get") EXCEPT !.query = raw]
          IN  \E res \in ServiceCreate(store, req[w].account, params) :
                 /\ Set(w, Goto([Invoke(r0, "Create", req[w].account.ID, req[w].account, res)
                                    EXCEPT !.createdAccount = res.ent], "Record"))
                 /\ store' = res.store

Create_Service(w) ==
    /\ At(w, "Create", "Service")
    /\ \E raw \in RawLimits :
          LET params == ParamGet(raw, thisAccounts)
              r0 == [Call(req[w], "param.Get") EXCEPT !.query = raw]
          IN  \E res \in ServiceCreate(store, req[w].account, params) :
                 LET r == [Invoke(r0, "Create", req[w].account.ID, req[w].account, res)
                              EXCEPT !.createdAccount = res.ent]
                 IN  /\ Set(w, IF res.err
                               THEN Return(JSON(r, Error(RespNew, "service error")))
                               ELSE Goto(r, "Record"))
                     /\ store' = res.store

\* the created entity recorded as the `after` snapshot
Create_Record_Created(w) ==
    /\ At(w, "Create", "Record")
    /\ \E ok \in BOOLEAN :
          Set(w, Goto(Record(req[w], "AccountCreate", <<Nil, req[w].createdAccount>>, ok),
                      "JSON"))
    /\ UNCHANGED store

Create_Record(w) ==
    /\ At(w, "Create", "Record")
    /\ \E ok \in BOOLEAN :
          Set(w, Goto(Record(req[w], "AccountCreate", <<Nil, req[w].account>>, ok), "JSON"))
    /\ UNCHANGED store

Create_JSON(w) ==
    /\ At(w, "Create", "JSON")
    /\ Set(w, Return(JSON(req[w], WithData(MessageT(Status(RespNew, StatusOK),
                                                     "V_created_successfully", thisAccount),
                                           Entity(req[w].createdAccount)))))
    /\ UNCHANGED store

\* ------------------------------------------------- Update
Update_CheckAccess(w) == AccessGate(w, "Update", AccountWrite, "StrToRowID")

Update_StrToRowID(w) ==
    /\ At(w, "Update", "StrToRowID")
    /\ \E s \in PathParams :
          LET p == StrToRowID(s)
              r == [Call(req[w], "StrToRowID") EXCEPT !.path = s, !.account.ID = p.id]
          IN  Set(w, IF p.err
                     THEN Return(JSON(r, Error(RespNew, "Invalid_ID")))
                     ELSE Goto(r, "ShouldBindJSON"))
    /\ UNCHANGED store

\* the decode error is not looked at
Update_ShouldBindJSON_IgnoreErr(w) ==
    /\ At(w, "Update", "ShouldBindJSON")
    /\ \E b \in Bodies :
          LET d == ShouldBindJSON(req[w].account, b)
          IN  Set(w, Goto([Call(req[w], "ShouldBindJSON")
                              EXCEPT !.body = b, !.account = d.account], "FindByID"))
    /\ UNCHANGED store

\* the body is decoded into the struct that already carries the path's ID
Update_ShouldBindJSON(w) ==
    /\ At(w, "Update", "ShouldBindJSON")
    /\ \E b \in Bodies :
          LET d == ShouldBindJSON(req[w].account, b)
              r == [Call(req[w], "ShouldBindJSON") EXCEPT !.body = b, !.account = d.account]
          IN  Set(w, IF d.err
                     THEN Return(JSON(r, Raw(StatusNotAcceptable, "validation error",
                                             NoMessage)))
                     ELSE Goto(r, "FindByID"))
    /\ UNCHANGED store

\* the lookup error is not looked at
Update_FindByID_IgnoreErr(w) ==
    /\ At(w, "Update", "FindByID")
    /\ \E res \in ServiceFindByID(store, req[w].account.ID) :
          /\ Set(w, Goto([Invoke(req[w], "FindByID", req[w].account.ID, ZeroAccount, res)
                             EXCEPT !.accountBefore = res.ent], "Save"))
          /\ store' = res.store

Update_FindByID(w) ==
    /\ At(w, "Update", "FindByID")
    /\ \E res \in ServiceFindByID(store, req[w].account.ID) :
          LET r == [Invoke(req[w], "FindByID", req[w].account.ID, ZeroAccount, res)
                       EXCEPT !.accountBefore = res.ent]
          IN  /\ Set(w, IF res.err
                        THEN Return(JSON(r, Error(Status(RespNew, StatusNotFound),
                                                  "Record_Not_Found")))
                        ELSE Goto(r, "Save"))
              /\ store' = res.store

\* a failed Save tried a second time
Update_Save_Retry(w) ==
    /\ At(w, "Update", "Save")
    /\ \E res \in ServiceSave(store, req[w].account) :
          IF res.err
          THEN \E again \in ServiceSave(store, req[w].account) :
                  LET first == Invoke(req[w], "Save", req[w].account.ID, req[w].account, res)
                      r == [Invoke(first, "Save", req[w].account.ID, req[w].account, again)
                               EXCEPT !.accountUpdated = again.ent]
                  IN  /\ Set(w, IF again.err
                                THEN Return(JSON(r, Error(RespNew, "service error")))
                                ELSE Goto(r, "Record"))
                      /\ store' = again.store
          ELSE LET r == [Invoke(req[w], "Save", req[w].account.ID, req[w].account, res)
                            EXCEPT !.accountUpdated = res.ent]
               IN  /\ Set(w, Goto(r, "Record"))
                   /\ store' = res.store

Update_Save(w) ==
    /\ At(w, "Update", "Save")
    /\ \E res \in ServiceSave(store, req[w].account) :
          LET r == [Invoke(req[w], "Save", req[w].account.ID, req[w].account, res)
                       EXCEPT !.accountUpdated = res.ent]
          IN  /\ Set(w, IF res.err
                        THEN Return(JSON(r, Error(RespNew, "service error")))
                        ELSE Goto(r, "Record"))
              /\ store' = res.store

\* the saved entity recorded as the `before` snapshot
Update_Record_Saved(w) ==
    /\ At(w, "Update", "Record")
    /\ \E ok \in BOOLEAN :
          Set(w, Goto(Record(req[w], "AccountUpdate",
                             <<req[w].accountUpdated, req[w].account>>, ok), "JSON"))
    /\ UNCHANGED store

Update_Record(w) ==
    /\ At(w, "Update", "Record")
    /\ \E ok \in BOOLEAN :
          Set(w, Goto(Record(req[w], "AccountUpdate",
                             <<req[w].accountBefore, req[w].account>>, ok), "JSON"))
    /\ UNCHANGED store

\* the recorder's failure turned into the request's failure
Update_JSON_RecorderAware(w) ==
    /\ At(w, "Update", "JSON")
    /\ Set(w, Return(JSON(req[w],
                          IF req[w].audit[1].ok
                          THEN WithData(MessageT(Status(RespNew, StatusOK),
                                                 "V_updated_successfully", thisAccount),
                                        Entity(req[w].accountUpdated))
                          ELSE Error(Status(RespNew, StatusInternalServerError),
                                     "audit error"))))
    /\ UNCHANGED store

Update_JSON(w) ==
    /\ At(w, "Update", "JSON")
    /\ Set(w, Return(JSON(req[w], WithData(MessageT(Status(RespNew, StatusOK),
                                                     "V_updated_successfully", thisAccount),
                                           Entity(req[w].accountUpdated)))))
    /\ UNCHANGED store

\* ------------------------------------------------- Delete
Delete_CheckAccess(w) == AccessGate(w, "Delete", AccountWrite, "StrToRowID")

\* the parse error is not looked at
Delete_StrToRowID_IgnoreErr(w) ==
    /\ At(w, "Delete", "StrToRowID")
    /\ \E s \in PathParams :
          Set(w, Goto([Call(req[w], "StrToRowID")
                          EXCEPT !.path = s, !.account.ID = StrToRowID(s).id], "Service"))
    /\ UNCHANGED store

Delete_StrToRowID(w) ==
    /\ At(w, "Delete", "StrToRowID")
    /\ \E s \in PathParams :
          LET p == StrToRowID(s)
              r == [Call(req[w], "StrToRowID") EXCEPT !.path = s, !.account.ID = p.id]
          IN  Set(w, IF p.err
                     THEN Return(JSON(r, Error(RespNew, "Invalid_ID")))
                     ELSE Goto(r, "Service"))
    /\ UNCHANGED store

\* a Delete failure answered the way the other verbs answer theirs
Delete_Service_NoStatus(w) ==
    /\ At(w, "Delete", "Service")
    /\ \E res \in ServiceDelete(store, req[w].account.ID) :
          LET r == [Invoke(req[w], "Delete", req[w].account.ID, ZeroAccount, res)
                       EXCEPT !.account = res.ent]
          IN  /\ Set(w, IF res.err
                        THEN Return(JSON(r, Error(RespNew, "service error")))
                        ELSE Goto(r, "Record"))
              /\ store' = res.store

Delete_Service(w) ==
    /\ At(w, "Delete", "Service")
    /\ \E res \in ServiceDelete(store, req[w].account.ID) :
          LET r == [Invoke(req[w], "Delete", req[w].account.ID, ZeroAccount, res)
                       EXCEPT !.account = res.ent]
          IN  /\ Set(w, IF res.err
                        THEN Return(JSON(r, Error(Status(RespNew, StatusInternalServerError),
                                                  "service error")))
                        ELSE Goto(r, "Record"))
              /\ store' = res.store

Delete_Record(w) ==
    /\ At(w, "Delete", "Record")
    /\ \E ok \in BOOLEAN :
          Set(w, Goto(Record(req[w], "AccountDelete", <<req[w].account>>, ok), "JSON"))
    /\ UNCHANGED store

\* the deleted entity handed to JSON
Delete_JSON_WithEntity(w) ==
    /\ At(w, "Delete", "JSON")
    /\ Set(w, Return(JSON(req[w], WithData(MessageT(Status(RespNew, StatusOK),
                                                     "V_deleted_successfully", thisAccount),
                                           Entity(req[w].account)))))
    /\ UNCHANGED store

\* JSON() without an argument: the envelope carries no payload
Delete_JSON(w) ==
    /\ At(w, "Delete", "JSON")
    /\ Set(w, Return(JSON(req[w], MessageT(Status(RespNew, StatusOK),
                                            "V_deleted_successfully", thisAccount))))
    /\ UNCHANGED store

\* ------------------------------------------------- Excel
Excel_CheckAccess(w) == AccessGate(w, "Excel", AccountExcel, "Service")

\* the `return` after the 404 left out
Excel_Service_NoReturn(w) ==
    /\ At(w, "Excel", "Service")
    /\ \E raw \in RawLimits :
          LET params == ParamGet(raw, thisAccounts)
              r0 == [Call(req[w], "param.Get") EXCEPT !.query = raw]
          IN  \E res \in ServiceExcel(store, params) :
                 LET r == [Invoke(r0, "Excel", 0, ZeroAccount, res)
                              EXCEPT !.data = res.rows]
                 IN  /\ Set(w, Goto(IF res.err
                                    THEN JSON(r, Error(Status(RespNew, StatusNotFound),
                                                       "Record_Not_Found"))
                                    ELSE r, "Record"))
                     /\ store' = res.store

Excel_Service(w) ==
    /\ At(w, "Excel", "Service")
    /\ \E raw \in RawLimits :
          LET params == ParamGet(raw, thisAccounts)
              r0 == [Call(req[w], "param.Get") EXCEPT !.query = raw]
          IN  \E res \in ServiceExcel(store, params) :
                 LET r == [Invoke(r0, "Excel", 0, ZeroAccount, res)
                              EXCEPT !.data = res.rows]
                 IN  /\ Set(w, IF res.err
                               THEN Return(JSON(r, Error(Status(RespNew, StatusNotFound),
                                                         "Record_Not_Found")))
                               ELSE Goto(r, "Record"))
                     /\ store' = res.store

Excel_Record(w) ==
    /\ At(w, "Excel", "Record")
    /\ \E ok \in BOOLEAN :
          Set(w, Goto(Record(req[w], "AccountExcel", <<>>, ok), "Build"))
    /\ UNCHANGED store

\* a header row one label short of the field list
HeaderLabels_Short == <<"ID", "Name", "Legal Name", "Server Address", "Expiration", "Plan",
                        "Detail", "Phone", "Email", "Website", "Type", "Code">>

HeaderLabels == <<"ID", "Name", "Legal Name", "Server Address", "Expiration", "Plan",
                  "Detail", "Phone", "Email", "Website", "Type", "Code", "Updated At">>
SheetFields == <<"ID", "Name", "LegalName", "ServerAddress", "Expiration", "Plan",
                 "Detail", "Phone", "Email", "Website", "Type", "Code", "UpdatedAt">>

\* the builder chain of the handler, call by call
\* the chain without the switch back to "Accounts" before the header
BuildChain_NoReactivate ==
    << [op |-> "New", args |-> <<"account">>],
       [op |-> "AddSheet", args |-> <<"Accounts">>],
       [op |-> "AddSheet", args |-> <<"Summary">>],
       [op |-> "Active", args |-> <<"Accounts">>],
       [op |-> "SetPageLayout", args |-> <<"landscape", "A4">>],
       [op |-> "SetPageMargins", args |-> <<"0.2">>],
       [op |-> "SetHeaderFooter", args |-> <<>>],
       [op |-> "SetColWidth", args |-> <<"B", "C", "15.3">>],
       [op |-> "SetColWidth", args |-> <<"M", "M", "20">>],
       [op |-> "Active", args |-> <<"Summary">>],
       [op |-> "SetColWidth", args |-> <<"A", "D", "20">>],
       [op |-> "WriteHeader", args |-> HeaderLabels],
       [op |-> "SetSheetFields", args |-> SheetFields],
       [op |-> "WriteData", args |-> <<>>],
       [op |-> "AddTable", args |-> <<>>] >>

BuildChain ==
    << [op |-> "New", args |-> <<"account">>],
       [op |-> "AddSheet", args |-> <<"Accounts">>],
       [op |-> "AddSheet", args |-> <<"Summary">>],
       [op |-> "Active", args |-> <<"Accounts">>],
       [op |-> "SetPageLayout", args |-> <<"landscape", "A4">>],
       [op |-> "SetPageMargins", args |-> <<"0.2">>],
       [op |-> "SetHeaderFooter", args |-> <<>>],
       [op |-> "SetColWidth", args |-> <<"B", "C", "15.3">>],
       [op |-> "SetColWidth", args |-> <<"M", "M", "20">>],
       [op |-> "Active", args |-> <<"Summary">>],
       [op |-> "SetColWidth", args |-> <<"A", "D", "20">>],
       [op |-> "Active", args |-> <<"Accounts">>],
       [op |-> "WriteHeader", args |-> HeaderLabels],
       [op |-> "SetSheetFields", args |-> SheetFields],
       [op |-> "WriteData", args |-> <<>>],
       [op |-> "AddTable", args |-> <<>>] >>

\* one call of the chain applied to the builder; WriteData takes the accounts
ApplyCall(ex, c, accounts) ==
    CASE c.op = "New" -> ExcelNew(c.args[1])
      [] c.op = "AddSheet" -> AddSheet(ex, c.args[1])
      [] c.op = "Active" -> Active(ex, c.args[1])
      [] c.op = "SetPageLayout" -> SetPageLayout(ex, c.args[1], c.args[2])
      [] c.op = "SetPageMargins" -> SetPageMargins(ex, c.args[1])
      [] c.op = "SetHeaderFooter" -> SetHeaderFooter(ex)
      [] c.op = "SetColWidth" -> SetColWidth(ex, c.args[1], c.args[2], c.args[3])
      [] c.op = "WriteHeader" -> WriteHeader(ex, c.args)
      [] c.op = "SetSheetFields" -> SetSheetFields(ex, c.args)
      [] c.op = "WriteData" -> WriteData(ex, accounts)
      [] OTHER -> AddTable(ex)

\* the next call of the chain; `built` logs each call with the sheet that
\* was active when it was made
Excel_Build(w) ==
    /\ At(w, "Excel", "Build")
    /\ LET r == req[w]
           i == Len(r.built) + 1
           c == BuildChain[i]
           b == [r EXCEPT !.ex = ApplyCall(r.ex, c, r.data),
                          !.built = Append(@, [op |-> c.op, sheet |-> r.ex.active])]
       IN  Set(w, IF i = Len(BuildChain) THEN Goto(Call(b, "excel.Build"), "Generate") ELSE b)
    /\ UNCHANGED store

\* the `return` after the 500 left out: the attachment is written as well
Excel_Generate_NoReturn(w) ==
    /\ At(w, "Excel", "Generate")
    /\ \E g \in Generate(req[w].ex) :
          LET r == [Call(req[w], "Generate")
                       EXCEPT !.generated = IF g.err THEN "error" ELSE "ok"]
              e == IF g.err
                   THEN JSON(r, Raw(StatusInternalServerError, "",
                                    <<"Error in generating Excel file">>))
                   ELSE r
          IN  Set(w, Return(JSON(e, Attachment(StatusOK, g.name, g.bytes))))
    /\ UNCHANGED store

Excel_Generate(w) ==
    /\ At(w, "Excel", "Generate")
    /\ \E g \in Generate(req[w].ex) :
          LET r == [Call(req[w], "Generate")
                       EXCEPT !.generated = IF g.err THEN "error" ELSE "ok"]
          IN  Set(w, Return(JSON(r, IF g.err
                                    THEN Raw(StatusInternalServerError, "",
                                             <<"Error in generating Excel file">>)
                                    ELSE Attachment(StatusOK, g.name, g.bytes))))
    /\ UNCHANGED store

\* ------------------------------------------------- the server
\* the handler has returned; the worker takes the next request
Finish(w) ==
    /\ req[w].pc = "done"
    /\ Set(w, Fresh)
    /\ UNCHANGED store

\* the workers are idle; the database the server connects to holds any rows
Init ==
    /\ req = [w \in Workers |-> Fresh]
    /\ store \in [IDs -> 0..MaxVal]

\* the steps at which a handler is about to call the service (or to start)
AtService == {"idle", "Service", "FindByID", "Save"}

\* Another request, served concurrently by a worker of its own, completes a
\* service call that changes the store.  A handler reads the store only in
\* its service calls, so a change that lands while it runs its other steps
\* is the same to it as one landing right before its next service call: the
\* change is placed there.
Interfere ==
    /\ \A w \in Workers : req[w].pc \in AtService
    /\ \E res \in UNION ({ServiceSave(store, Account(i, n)) : i \in IDs, n \in Names}
                         \cup {ServiceCreate(store, Account(0, n), ParamGet(0, thisAccounts))
                                  : n \in Names}
                         \cup {ServiceDelete(store, i) : i \in IDs}) :
          /\ ~res.err
          /\ res.store # store
          /\ store' = res.store
    /\ UNCHANGED req

Handler(w) ==
    \/ FindByID_CheckAccess(w) \/ FindByID_StrToRowID(w) \/ FindByID_Service(w)
    \/ FindByID_Record(w) \/ FindByID_JSON(w)
    \/ List_CheckAccess(w) \/ List_Service(w) \/ List_Record(w) \/ List_JSON(w)
    \/ Create_CheckAccess(w) \/ Create_ShouldBindJSON(w) \/ Create_Service(w)
    \/ Create_Record(w) \/ Create_JSON(w)
    \/ Update_CheckAccess(w) \/ Update_StrToRowID(w) \/ Update_ShouldBindJSON(w)
    \/ Update_FindByID(w) \/ Update_Save(w) \/ Update_Record(w) \/ Update_JSON(w)
    \/ Delete_CheckAccess(w) \/ Delete_StrToRowID(w) \/ Delete_Service(w)
    \/ Delete_Record(w) \/ Delete_JSON(w)
    \/ Excel_CheckAccess(w) \/ Excel_Service(w) \/ Excel_Record(w)
    \/ Excel_Build(w) \/ Excel_Generate(w)
    \/ Finish(w)

\* One request at a time is followed through its handler; whatever the
\* requests served beside it do to the store is Interfere.
Next == Handler("w1") \/ Interfere

Spec == Init /\ [][Next]_vars

\* a handler, once entered, keeps running: gin runs it to its return
SpecFair == Spec /\ WF_vars(Handler("w1"))

\* Two mutating requests followed side by side, step by step.
NextConc ==
    \E w \in Workers :
       \/ Update_CheckAccess(w) \/ Update_StrToRowID(w) \/ Update_ShouldBindJSON(w)
       \/ Update_FindByID(w) \/ Update_Save(w) \/ Update_Record(w) \/ Update_JSON(w)
       \/ Delete_CheckAccess(w) \/ Delete_StrToRowID(w) \/ Delete_Service(w)
       \/ Delete_Record(w) \/ Delete_JSON(w)
       \/ Finish(w)

SpecConc == Init /\ [][NextConc]_vars

\* ------------------------------------------------- reading a request's log
ServiceOps == {"FindByID", "List", "Create", "Save", "Delete", "Excel"}
Pos(calls, ops) == {i \in DOMAIN calls : calls[i] \in ops}
Denied(r) == \E i \in DOMAIN r.checked : r.checked[i].denied
Failed(r) == \E i \in DOMAIN r.svc : r.svc[i].err
OpsOf(r) == [i \in DOMAIN r.svc |-> r.svc[i].op]
\* the service calls a request of each verb makes when none of them fails
Pipeline(v) == CASE v = "FindByID" -> <<"FindByID">>
                 [] v = "List" -> <<"List">>
                 [] v = "Create" -> <<"Create">>
                 [] v = "Update" -> <<"FindByID", "Save">>
                 [] v = "Delete" -> <<"Delete">>
                 [] v = "Excel" -> <<"Excel">>
                 [] OTHER -> <<>>
EventOf(v) == CASE v = "FindByID" -> "AccountView"
                [] v = "List" -> "AccountList"
                [] v = "Create" -> "AccountCreate"
                [] v = "Update" -> "AccountUpdate"
                [] v = "Delete" -> "AccountDelete"
                [] v = "Excel" -> "AccountExcel"
                [] OTHER -> ""
Before(ev) == IF Len(ev.data) >= 1 THEN ev.data[1] ELSE Nil
After(ev) == IF Len(ev.data) >= 2 THEN ev.data[2] ELSE Nil

\* ------------------------------------------------- C1
\* C1: in every handler, a request whose access check reports the capability
\* missing ends with a 403 response, and makes no service call and no audit
\* Record call at any point.
C1_DeniedEnds403 ==
    \A w \in Workers :
       LET r == req[w]
       IN  Denied(r) =>
              /\ r.pc = "done"
              /\ Len(r.out) = 1
              /\ r.out[1].status = StatusForbidden
              /\ r.svc = <<>> /\ r.audit = <<>>
              /\ Pos(r.calls, ServiceOps \cup {"Record"}) = {}

C1_Witness ==
    /\ req["w1"].verb = "Delete" /\ Denied(req["w1"]) /\ req["w1"].pc = "done"
    /\ store # [i \in IDs |-> 0]

\* ------------------------------------------------- C2
OneResponse(r) ==
    /\ Len(r.out) <= 1
    /\ Cardinality(Pos(r.calls, {"Write"})) = Len(r.out)
    /\ (r.pc = "done") <=> (Len(r.out) = 1)
    /\ r.pc = "done" =>
          /\ r.calls[Len(r.calls)] = "Write"
          /\ r.out[1].shape \in {"envelope", "raw", "attachment"}
          /\ r.out[1].shape = "attachment" => r.verb = "Excel"

\* C2: whatever the access result, the inputs, the service results and the
\* result of Generate, a request never has more than one response written,
\* the write is its last step (a request has returned exactly when it has
\* written one; an attachment only from Excel), and every request that has
\* entered a handler comes to write its response.
C2_OneTerminalResponse ==
    /\ [](\A w \in Workers : OneResponse(req[w]))
    /\ \A w \in Workers : (req[w].pc # "idle") ~> (req[w].pc = "done")

C2_Witness ==
    /\ req["w1"].verb = "Excel" /\ req["w1"].pc = "done"
    /\ req["w1"].out[1].status = StatusInternalServerError
    /\ Len(req["w1"].calls) = 7

\* ------------------------------------------------- C3
\* C3: in every handler Record is called only after every service call of
\* the verb has returned success, and before the response is written; no
\* request with a failed service call records an event, and every request
\* whose service calls all succeeded has recorded its event when it responds.
C3_RecordAfterSuccessBeforeResponse ==
    \A w \in Workers :
       LET r == req[w]
           rec == Pos(r.calls, {"Record"})
       IN  /\ Cardinality(rec) = Len(r.audit)
           /\ r.audit # <<>> =>
                 /\ OpsOf(r) = Pipeline(r.verb)
                 /\ ~Failed(r)
                 /\ r.audit[1].kind = EventOf(r.verb)
                 /\ \A i \in rec :
                       /\ \A j \in Pos(r.calls, ServiceOps) : j < i
                       /\ \A j \in Pos(r.calls, {"Write"}) : i < j
           /\ Failed(r) => r.audit = <<>>
           /\ (r.pc = "done" /\ OpsOf(r) = Pipeline(r.verb) /\ ~Failed(r)) => Len(r.audit) = 1

C3_Witness ==
    /\ req["w1"].verb = "Update" /\ req["w1"].pc = "done"
    /\ Len(req["w1"].svc) = 2 /\ ~Failed(req["w1"])
    /\ Len(req["w1"].audit) = 1

\* ------------------------------------------------- C4
\* C4: the `before` snapshot Update hands to Record is the entity that the
\* request's own FindByID call returned, a call made before its Save; it is
\* not taken from what Save returned.
C4_BeforeIsFindByIDResult ==
    \A w \in Workers :
       LET r == req[w]
       IN  (r.verb = "Update" /\ r.audit # <<>>) =>
              /\ Len(r.svc) = 2
              /\ r.svc[1].op = "FindByID" /\ ~r.svc[1].err
              /\ r.svc[2].op = "Save"
              /\ Before(r.audit[1]) = r.svc[1].ret
              /\ \A i \in Pos(r.calls, {"FindByID"}) :
                    \A j \in Pos(r.calls, {"Save"}) : i < j

\* the saved entity differs from the one found, so the two cannot be confused
C4_Witness ==
    /\ req["w1"].verb = "Update" /\ req["w1"].audit # <<>>
    /\ req["w1"].svc[2].ret # req["w1"].svc[1].ret
    /\ Before(req["w1"].audit[1]) = req["w1"].svc[1].ret

\* ------------------------------------------------- C5
\* C5: in Update the identifier of the request path is authoritative: the
\* identifier handed to FindByID and the entity handed to Save carry it, even
\* when the body names another identifier.
C5_PathIDAuthoritative ==
    \A w \in Workers :
       LET r == req[w]
       IN  r.verb = "Update" =>
              \A i \in DOMAIN r.svc :
                 /\ r.svc[i].id = StrToRowID(r.path).id
                 /\ r.svc[i].op = "Save" => r.svc[i].ent.ID = StrToRowID(r.path).id

\* ------------------------------------------------- C6
\* C6: a List request with an invalid pagination parameter ends in a
\* client-error outcome and never invokes Service.List.
C6_InvalidPaginationRejected ==
    \A w \in Workers :
       LET r == req[w]
       IN  (r.verb = "List" /\ Pos(r.calls, {"param.Get"}) # {} /\ r.query < 1) =>
              /\ Pos(r.calls, {"List"}) = {}
              /\ r.pc = "done" =>
                    /\ Len(r.out) = 1
                    /\ r.out[1].err # ""
                    /\ r.out[1].status \notin 500..599

\* ------------------------------------------------- C7
\* C7: once Service.Delete has returned success, the Delete request records
\* exactly one event, of kind AccountDelete, and then responds 200 with an
\* empty payload.
C7_DeleteSuccess ==
    \A w \in Workers :
       LET r == req[w]
       IN  (r.verb = "Delete" /\ r.svc # <<>> /\ ~r.svc[1].err) =>
              /\ r.pc \in {"Record", "JSON", "done"}
              /\ r.pc = "Record" => r.audit = <<>>
              /\ r.pc \in {"JSON", "done"} =>
                    /\ Len(r.audit) = 1
                    /\ r.audit[1].kind = "AccountDelete"
              /\ r.pc = "done" =>
                    /\ Len(r.out) = 1
                    /\ r.out[1].status = StatusOK
                    /\ r.out[1].err = ""
                    /\ r.out[1].data = NoData
                    /\ \A i \in Pos(r.calls, {"Record"}) :
                          \A j \in Pos(r.calls, {"Write"}) : i < j

C7_Witness ==
    /\ req["w1"].verb = "Delete" /\ req["w1"].pc = "done"
    /\ req["w1"].svc # <<>> /\ ~req["w1"].svc[1].err
    /\ req["w1"].account.Name \in Names

\* ------------------------------------------------- C8
ServiceErrorEnvelope(r) ==
    /\ r.pc = "done"
    /\ Len(r.out) = 1
    /\ r.out[1].shape = "envelope"
    /\ r.out[1].err # ""
    /\ r.out[1].status \notin 500..599

\* C8: an error of Service.Delete ends the request with a 500 and no audit
\* event; an error of Service.List, Service.Create or Update's Service.Save
\* ends it with an error envelope on which the handler sets no 5xx status.
C8_DeleteEscalates ==
    \A w \in Workers :
       LET r == req[w]
       IN  /\ (r.verb = "Delete" /\ r.svc # <<>> /\ r.svc[1].err) =>
                 /\ r.pc = "done"
                 /\ Len(r.out) = 1
                 /\ r.out[1].status = StatusInternalServerError
                 /\ r.audit = <<>>
           /\ (r.verb \in {"List", "Create"} /\ r.svc # <<>> /\ r.svc[1].err) =>
                 ServiceErrorEnvelope(r)
           /\ (r.verb = "Update" /\ Len(r.svc) = 2 /\ r.svc[2].err) =>
                 ServiceErrorEnvelope(r)

C8_Witness ==
    /\ req["w1"].verb = "Delete" /\ req["w1"].pc = "done"
    /\ req["w1"].svc # <<>> /\ req["w1"].svc[1].err
    /\ req["w1"].svc[1].id \in Present(store)

\* ------------------------------------------------- C9
\* the entity as the request body submits it
Submitted(body) == Account(IF body.hasID THEN body.ID ELSE 0, body.Name)

\* C9: once Service.Create has returned success, the Create request records
\* exactly one AccountCreate event with no `before` snapshot and the submitted
\* entity as `after`, and then responds 200 with the entity the service
\* returned, which carries the identifier the service assigned.
C9_CreateSuccess ==
    \A w \in Workers :
       LET r == req[w]
       IN  (r.verb = "Create" /\ r.svc # <<>> /\ ~r.svc[1].err) =>
              /\ r.pc \in {"Record", "JSON", "done"}
              /\ r.pc = "Record" => r.audit = <<>>
              /\ r.pc \in {"JSON", "done"} =>
                    /\ Len(r.audit) = 1
                    /\ r.audit[1].kind = "AccountCreate"
                    /\ Before(r.audit[1]) = Nil
                    /\ After(r.audit[1]) = Submitted(r.body)
              /\ r.pc = "done" =>
                    /\ Len(r.out) = 1
                    /\ r.out[1].status = StatusOK
                    /\ r.out[1].data = Entity(r.svc[1].ret)
                    /\ r.svc[1].ret.ID \in IDs

\* the body omits the identifier, the response carries the assigned one
C9_Witness ==
    /\ req["w1"].verb = "Create" /\ req["w1"].pc = "done"
    /\ req["w1"].svc # <<>> /\ ~req["w1"].svc[1].err
    /\ ~req["w1"].body.hasID
    /\ req["w1"].out[1].data.ent.ID \in IDs

\* ------------------------------------------------- C10
CapOf(v) == CASE v = "FindByID" -> AccountRead
              [] v \in {"List", "Create", "Update", "Delete"} -> AccountWrite
              [] v = "Excel" -> AccountExcel
              [] OTHER -> ""

\* C10: in every handler the capability check is the first step, before any
\* input binding, service call or audit call, and a request checks exactly
\* one capability: AccountRead for FindByID, AccountWrite for List, Create,
\* Update and Delete, AccountExcel for Excel.
C10_OneCapabilityFirst ==
    \A w \in Workers :
       LET r == req[w]
       IN  r.calls # <<>> =>
              /\ r.calls[1] = "CheckAccess"
              /\ Pos(r.calls, {"CheckAccess"}) = {1}
              /\ Len(r.checked) = 1
              /\ r.checked[1].cap = CapOf(r.verb)

C10_Witness ==
    /\ req["w1"].verb = "List" /\ req["w1"].pc = "done"
    /\ Pos(req["w1"].calls, {"List"}) # {}
    /\ req["w1"].checked[1].cap = AccountWrite

\* ------------------------------------------------- C11
\* C11: in Create and Update a malformed body ends the request with a 406
\* carrying the raw validation error, written past the envelope builder;
\* neither Service.Create, Service.FindByID nor Service.Save is called and no
\* audit event is recorded.
C11_MalformedBody406 ==
    \A w \in Workers :
       LET r == req[w]
       IN  (r.verb \in {"Create", "Update"}
            /\ Pos(r.calls, {"ShouldBindJSON"}) # {} /\ ~r.body.ok) =>
              /\ r.pc = "done"
              /\ Len(r.out) = 1
              /\ r.out[1].status = StatusNotAcceptable
              /\ StatusClass(r.out[1]) = "4xx"
              /\ r.out[1].shape = "raw"
              /\ r.out[1].err = "validation error"
              /\ r.out[1].msg = NoMessage
              /\ r.svc = <<>> /\ r.audit = <<>>
              /\ Pos(r.calls, ServiceOps \cup {"Record"}) = {}

C11_Witness ==
    /\ req["w1"].verb = "Update" /\ req["w1"].pc = "done"
    /\ Pos(req["w1"].calls, {"ShouldBindJSON"}) # {} /\ ~req["w1"].body.ok
    /\ req["w1"].account.ID \in Present(store)

\* ------------------------------------------------- C12
MalformedPath(r) == Pos(r.calls, {"StrToRowID"}) # {} /\ StrToRowID(r.path).err

\* C12: in FindByID, Update and Delete a malformed path identifier ends the
\* request with the Invalid_ID envelope, a client error; the service is never
\* called, Update's body is never decoded and no audit event is recorded.
C12_MalformedIDRejected ==
    \A w \in Workers :
       LET r == req[w]
       IN  (r.verb \in {"FindByID", "Update", "Delete"} /\ MalformedPath(r)) =>
              /\ r.pc = "done"
              /\ Len(r.out) = 1
              /\ r.out[1].shape = "envelope"
              /\ r.out[1].err = "Invalid_ID"
              /\ StatusClass(r.out[1]) = "4xx"
              /\ r.svc = <<>> /\ r.audit = <<>>
              /\ Pos(r.calls, ServiceOps \cup {"Record", "ShouldBindJSON"}) = {}
              /\ r.body = NoBody

C12_Witness ==
    /\ req["w1"].verb = "Delete" /\ req["w1"].pc = "done"
    /\ req["w1"].path = <<"x">>
    /\ MalformedPath(req["w1"])

\* ------------------------------------------------- C13
LookupFailed(r) == r.verb = "Update" /\ r.svc # <<>> /\ r.svc[1].err

\* C13: when Update's FindByID lookup fails the request ends with a 404,
\* Service.Save is never called, no audit event is recorded, and no step of
\* that request from the failed lookup on changes the store.
C13_UpdateNotFound ==
    /\ [](\A w \in Workers :
             LET r == req[w]
             IN  LookupFailed(r) =>
                    /\ r.pc = "done"
                    /\ Len(r.out) = 1
                    /\ r.out[1].status = StatusNotFound
                    /\ Len(r.svc) = 1
                    /\ Pos(r.calls, {"Save"}) = {}
                    /\ r.audit = <<>>)
    /\ [][\A w \in Workers :
             ((LookupFailed(req[w]) \/ LookupFailed(req'[w])) /\ req'[w] # req[w])
                => store' = store]_vars

\* the row exists and the lookup still failed: Save would have succeeded
C13_Witness ==
    /\ LookupFailed(req["w1"]) /\ req["w1"].pc = "done"
    /\ req["w1"].account.ID \in Present(store)
    /\ store[req["w1"].account.ID] # req["w1"].account.Name

\* ------------------------------------------------- C14
\* C14: in FindByID a service error ends the request with a 404 and no audit
\* event; a service success is followed by exactly one AccountView event and
\* then a 200 whose payload is the entity the service returned.
C14_FindByIDOutcomes ==
    \A w \in Workers :
       LET r == req[w]
       IN  (r.verb = "FindByID" /\ r.svc # <<>>) =>
              /\ Len(r.svc) = 1
              /\ r.svc[1].err =>
                    /\ r.pc = "done"
                    /\ Len(r.out) = 1
                    /\ r.out[1].status = StatusNotFound
                    /\ r.audit = <<>>
              /\ ~r.svc[1].err =>
                    /\ r.pc \in {"Record", "JSON", "done"}
                    /\ r.pc = "Record" => r.audit = <<>>
                    /\ r.pc \in {"JSON", "done"} =>
                          /\ Len(r.audit) = 1
                          /\ r.audit[1].kind = "AccountView"
                    /\ r.pc = "done" =>
                          /\ Len(r.out) = 1
                          /\ r.out[1].status = StatusOK
                          /\ r.out[1].data = Entity(r.svc[1].ret)
                          /\ \A i \in Pos(r.calls, {"Record"}) :
                                \A j \in Pos(r.calls, {"Write"}) : i < j

C14_Witness ==
    /\ req["w1"].verb = "FindByID" /\ req["w1"].pc = "done"
    /\ req["w1"].svc # <<>> /\ ~req["w1"].svc[1].err
    /\ req["w1"].out[1].data.ent.Name \in Names

\* ------------------------------------------------- C15
\* C15: in Excel a failed fetch ends the request with a 404, no audit event
\* and no workbook built; a fetch that succeeds followed by a Generate that
\* fails ends it with a 500 carrying a raw message and no attachment, and the
\* AccountExcel event recorded before the build stays recorded.
C15_ExcelFailures ==
    \A w \in Workers :
       LET r == req[w]
       IN  /\ (r.verb = "Excel" /\ r.svc # <<>> /\ r.svc[1].err) =>
                 /\ r.pc = "done"
                 /\ Len(r.out) = 1
                 /\ r.out[1].status = StatusNotFound
                 /\ r.audit = <<>>
                 /\ r.built = <<>> /\ r.ex = NoBook
                 /\ Pos(r.calls, {"Record", "excel.Build", "Generate"}) = {}
           /\ (r.verb = "Excel" /\ r.generated = "error") =>
                 /\ ~r.svc[1].err
                 /\ r.pc = "done"
                 /\ Len(r.out) = 1
                 /\ r.out[1].status = StatusInternalServerError
                 /\ r.out[1].shape = "raw"
                 /\ r.out[1].msg = <<"Error in generating Excel file">>
                 /\ r.out[1].file = NoFile
                 /\ Len(r.audit) = 1
                 /\ r.audit[1].kind = "AccountExcel"
                 /\ \A i \in Pos(r.calls, {"Record"}) :
                       \A j \in Pos(r.calls, {"excel.Build"}) : i < j

C15_Witness ==
    /\ req["w1"].verb = "Excel" /\ req["w1"].generated = "error"
    /\ req["w1"].data # <<>>
    /\ Len(req["w1"].audit) = 1

\* ------------------------------------------------- C16
ChainDone(r) == r.verb = "Excel" /\ r.pc \in {"Generate", "done"} /\ r.built # <<>>
SheetOf(ex, n) == ex.sheet[SheetIndex(ex, n)]
EmptyExport(r) == r.verb = "Excel" /\ r.svc # <<>> /\ ~r.svc[1].err /\ r.data = <<>>

Times(seq, x) == Cardinality({i \in DOMAIN seq : seq[i] = x})

\* C17: the pipeline never retries: within one request each service
\* operation (FindByID, List, Create, Save, Delete, Excel) is invoked at most
\* once and the audit recorder at most once, on error paths as on the others.
C17_NoRetry ==
    \A w \in Workers :
       LET r == req[w]
       IN  /\ \A op \in ServiceOps : Times(r.calls, op) <= 1
           /\ \A op \in ServiceOps : Times(OpsOf(r), op) <= 1
           /\ Len(r.svc) = Cardinality(Pos(r.calls, ServiceOps))
           /\ Times(r.calls, "Record") <= 1
           /\ Len(r.audit) = Times(r.calls, "Record")
           /\ Failed(r) => /\ r.svc[Len(r.svc)].err
                           /\ \A i \in 1..(Len(r.svc) - 1) : ~r.svc[i].err
                           /\ r.pc = "done"

C17_Witness ==
    /\ req["w1"].verb = "Update" /\ req["w1"].pc = "done"
    /\ OpsOf(req["w1"]) = <<"FindByID", "Save">>
    /\ req["w1"].svc[2].err
    /\ Times(req["w1"].calls, "Save") = 1
    /\ req["w1"].audit = <<>>

\* ------------------------------------------------- C18
\* the label each bound field is written under
LabelField ==
    { <<"ID", "ID">>, <<"Name", "Name">>, <<"Legal Name", "LegalName">>,
      <<"Server Address", "ServerAddress">>, <<"Expiration", "Expiration">>,
      <<"Plan", "Plan">>, <<"Detail", "Detail">>, <<"Phone", "Phone">>,
      <<"Email", "Email">>, <<"Website", "Website">>, <<"Type", "Type">>,
      <<"Code", "Code">>, <<"Updated At", "UpdatedAt">> }
DataCalls == {"WriteHeader", "SetSheetFields", "WriteData", "AddTable"}

\* C18: in Excel's builder chain the active sheet is "Accounts" when
\* WriteHeader, SetSheetFields, WriteData and AddTable are applied, so
\* "Summary" receives only the A-D column width and no header or data; the
\* header row and the field bindings written to "Accounts" both have length
\* 13, in matching order, so the only sheet that writes data satisfies the
\* header/binding length invariant.
C18_DataOnAccounts ==
    \A w \in Workers :
       LET r == req[w]
       IN  r.verb = "Excel" =>
              /\ \A i \in DOMAIN r.built :
                    r.built[i].op \in DataCalls => r.built[i].sheet = "Accounts"
              /\ ChainDone(r) =>
                    LET a == SheetOf(r.ex, "Accounts")
                        m == SheetOf(r.ex, "Summary")
                    IN  /\ DataCalls \subseteq {r.built[i].op : i \in DOMAIN r.built}
                        /\ m = [EmptySheet EXCEPT !.cols = {<<"A", "D", "20">>}]
                        /\ Len(a.header) = 13
                        /\ Len(a.fields) = 13
                        /\ \A i \in 1..13 : <<a.header[i], a.fields[i]>> \in LabelField
                        /\ a.data /\ a.table
                        /\ Len(a.rows) = Len(r.data)
                        /\ \A i \in DOMAIN a.rows : Len(a.rows[i]) = 13
                        /\ \A i \in 1..Len(r.ex.sheet) :
                              r.ex.sheet[i].data =>
                                 Len(r.ex.sheet[i].header) = Len(r.ex.sheet[i].fields)

C18_Witness ==
    /\ ChainDone(req["w1"])
    /\ req["w1"].data # <<>>
    /\ Len(SheetOf(req["w1"].ex, "Accounts").rows) = Len(req["w1"].data)
    /\ SheetOf(req["w1"].ex, "Summary").header = <<>>
    /\ \E i \in DOMAIN req["w1"].built :
          req["w1"].built[i].op = "WriteData" /\ req["w1"].built[i].sheet = "Accounts"

\* ------------------------------------------------- C19
\* the row the store holds under an identifier, as FindByID would return it
Stored(id) == IF id \in IDs THEN Account(id, store[id]) ELSE ZeroAccount

\* C19: when two Update requests, or an Update and a Delete, for the same
\* identifier interleave, the `before` snapshot an Update records is still
\* the entity stored immediately before that request's own Save took effect:
\* no other request's Save or Delete lands between its FindByID and its Save.
C19_SnapshotIsPreSaveState ==
    /\ [](\A w \in Workers :
             (req[w].verb = "Update" /\ req[w].audit # <<>>) =>
                Before(req[w].audit[1]) = req[w].accountBefore)
    /\ [][\A w \in Workers :
             (At(w, "Update", "Save") /\ req'[w].pc = "Record") =>
                req[w].accountBefore = Stored(req[w].account.ID)]_vars

\* ------------------------------------------------- C20
Envelope200(t, arg, d) ==
    [shape |-> "envelope", status |-> StatusOK, err |-> "", msg |-> <<t, arg>>,
     data |-> d, file |-> NoFile]
\* the response of a request whose service calls all succeeded, read from
\* what the service returned
SuccessOutcome(r) ==
    CASE r.verb = "FindByID" -> Envelope200("V_info", thisAccount, Entity(r.svc[1].ret))
      [] r.verb = "List" -> Envelope200("List_of_V", thisAccounts, List(r.data))
      [] r.verb = "Create" ->
            Envelope200("V_created_successfully", thisAccount, Entity(r.svc[1].ret))
      [] r.verb = "Update" ->
            Envelope200("V_updated_successfully", thisAccount, Entity(r.svc[2].ret))
      [] r.verb = "Delete" -> Envelope200("V_deleted_successfully", thisAccount, NoData)
      [] r.verb = "Excel" /\ r.generated = "ok" ->
            Attachment(StatusOK, <<r.ex.name, ".xlsx">>, r.ex.sheet)
      [] OTHER -> Raw(StatusInternalServerError, "", <<"Error in generating Excel file">>)

\* C20: a failure of the audit recorder never changes the outcome: on every
\* handler's success path the status, message and payload of the terminal
\* response are what the service results determine, whether Record succeeded
\* or failed, and the response is written exactly once, after Record returns.
C20_RecorderFailureIgnored ==
    \A w \in Workers :
       LET r == req[w]
       IN  r.audit # <<>> =>
              /\ Len(r.audit) = 1
              /\ r.pc # "done" => r.out = <<>>
              /\ r.pc = "done" =>
                    /\ Len(r.out) = 1
                    /\ r.out[1] = SuccessOutcome(r)
                    /\ r.calls[Len(r.calls)] = "Write"
                    /\ Times(r.calls, "Write") = 1
                    /\ \A i \in Pos(r.calls, {"Record"}) : i < Len(r.calls)

C20_Witness ==
    /\ req["w1"].verb = "Update" /\ req["w1"].pc = "done"
    /\ req["w1"].audit # <<>> /\ ~req["w1"].audit[1].ok
    /\ req["w1"].out = <<SuccessOutcome(req["w1"])>>
    /\ req["w1"].out[1].status = StatusOK

====
